---- MODULE Spec2Model ----
(***************************************************************************)
(* AI Career Mentor (src/ell_exp.py): a Streamlit script.  Every user      *)
(* interaction reruns main() from top to bottom; the only state that       *)
(* survives a rerun is st.session_state.openai_api_key.  A rerun reads the *)
(* widgets' values, stores the credential, and, when the view's button was *)
(* pressed, calls the generation gateway, which calls the hosted provider. *)
(* The provider is opaque: it answers with a parsed value of the declared  *)
(* shape or raises.  `screen` holds the st.header, st.subheader, st.write,  *)
(* st.info, st.markdown, st.error, st.success and sidebar status elements  *)
(* of a run, in order.  Left out: the CSS block, the title, the sidebar    *)
(* titles and rule, the random quote, the st.code listing and the closing  *)
(* </div> of each view.  Text is kept with its emoji dropped and each run  *)
(* of white space written as one space.                                    *)
(***************************************************************************)
EXTENDS Integers, Sequences, FiniteSets, TLC

VARIABLES
    openai_api_key,  \* st.session_state.openai_api_key
    widgets,         \* the values the widgets returned in the last rerun
    reply,           \* what the provider did with the last operation's request
    response,        \* the value the last gateway call returned
    screen,          \* what the last rerun (or gateway call) displayed, in order
    calls,           \* every request sent to the provider, in order
    entered,         \* the credential field's value in each rerun, in order
    raised,          \* an exception escaped the last operation
    op,              \* the operation that ran last
    steps            \* the number of operations run so far

vars == <<openai_api_key, widgets, reply, response, screen, calls, entered, raised, op,
          steps>>

(* ------------------------------- bounds -------------------------------- *)
MaxSteps == 3
MaxQuestions == 2

(* ------------------------------- values -------------------------------- *)
None == "<None>"

Keys == {"sk-1", "sk-2"}
KeyField == {""} \cup Keys
InterestsField == {"", "AI"}
SkillsField == {"", "coding"}
GoalsField == {"", "startup"}
RoleField == {"", "Data Scientist"}
DirectCareerArgs == {<<"", "", "">>, <<"AI", "coding", "startup">>}
Features == {"Career Guidance", "Interview Question Generator",
             "About the App", "How It Works"}

CareerTexts == {"", "ML Engineer"}
ReasonTexts == {"", "Strong technical fit"}
QuestionTexts == {"Q1", "Q2"}
FaultMessages == {"Connection error.", "Incorrect API key provided"}

SeqsUpTo(S, n) == UNION {[1..k -> S] : k \in 0..n}

\* class CareerSuggestion: two str fields, no further constraint
CareerSuggestion == [career : CareerTexts, reasons : ReasonTexts]
\* class InterviewQuestions: a str and a list[str], no further constraint
InterviewQuestions ==
    [role : RoleField \ {""}, questions : SeqsUpTo(QuestionTexts, MaxQuestions)]

Message(parsed) == [kind |-> "Message", parsed |-> parsed]
Exception(msg) == [kind |-> "Exception", msg |-> msg]
NoneValue == [kind |-> "None"]
Unbound == [kind |-> "unbound"]

\* what the provider can do with a request for a CareerSuggestion
CareerOutcomes ==
    {Message(p) : p \in CareerSuggestion} \cup {Exception(m) : m \in FaultMessages}
\* what the provider can do with a request for InterviewQuestions
InterviewOutcomes ==
    {Message(p) : p \in InterviewQuestions} \cup {Exception(m) : m \in FaultMessages}

El(w, body) == [w |-> w, body |-> body]

MissingKeyMsg == "Please enter your OpenAI API key in the sidebar first!"
FillAllMsg == "Please fill in all fields to get personalized advice!"
EnterRoleMsg == "Please enter a job role!"
AnalysisBanner == "Analysis Complete!"
QuestionsBanner == "Questions Generated!"
ExampleBanner == "Yay! See how easy it is to create magic with ell?"

\* Python truthiness of a str
Truthy(s) == s # ""

(* ------------------------- credential holder --------------------------- *)
is_api_key_set_always(key) == TRUE
\* return st.session_state.openai_api_key is not None
is_api_key_set(key) == key # None

StoreAlways(key, api_key) == api_key
StoreOrClear(key, api_key) == IF Truthy(api_key) THEN api_key ELSE None
\* if api_key: st.session_state.openai_api_key = api_key
StoreApiKey(key, api_key) == IF Truthy(api_key) THEN api_key ELSE key

KeyBeforeSidebar(key, api_key) == key
\* the sidebar (lines 105-116) runs before the view (lines 131-243): the view
\* reads the credential as the sidebar left it
KeyInView(key, api_key) == StoreApiKey(key, api_key)

SidebarStatus(api_key) ==
    IF Truthy(api_key)
    THEN <<El("sidebar.success", "API key set successfully!")>>
    ELSE <<El("sidebar.warning",
              "Please enter your OpenAI API key to use the app features")>>

(* -------------------------- generation gateway ------------------------- *)
CareerPrompt(interests, skills, goals) ==
    "Based on interests: " \o interests \o ", skills: " \o skills
        \o ", and goals: " \o goals \o ", suggest a suitable career."

InterviewPrompt(role) ==
    "Generate 5 interview questions for the role of " \o role \o "."

ProviderCall(key, shape, prompt) ==
    [api_key |-> key, model |-> "gpt-4o", response_format |-> shape,
     prompt |-> prompt]

\* the outcome of a gateway operation: what it returned, what it displayed,
\* the requests it sent, what the provider did, whether an exception left it
Result(ret, shown, sent, answer, exc) ==
    [ret |-> ret, shown |-> shown, sent |-> sent, reply |-> answer,
     raised |-> exc]

TryNoExcept(call, outcome) ==
    IF outcome.kind = "Exception"
    THEN Result(Unbound, <<>>, <<call>>, outcome, TRUE)
    ELSE Result(outcome, <<>>, <<call>>, outcome, FALSE)

TryRetryOnce(call, outcome) ==
    IF outcome.kind = "Exception"
    THEN Result(NoneValue, <<El("error", "Error: " \o outcome.msg)>>,
                <<call, call>>, outcome, FALSE)
    ELSE Result(outcome, <<>>, <<call>>, outcome, FALSE)

\* try: return _generate(...)  except Exception as e: st.error(...); return None
Try(call, outcome) ==
    IF outcome.kind = "Exception"
    THEN Result(NoneValue, <<El("error", "Error: " \o outcome.msg)>>,
                <<call>>, outcome, FALSE)
    ELSE Result(outcome, <<>>, <<call>>, outcome, FALSE)

MissingKeyResult ==
    Result(NoneValue, <<El("error", MissingKeyMsg)>>, <<>>, Unbound, FALSE)

generate_career_guidance(key, interests, skills, goals, outcome) ==
    IF ~is_api_key_set(key)
    THEN MissingKeyResult
    ELSE Try(ProviderCall(key, "CareerSuggestion",
                          CareerPrompt(interests, skills, goals)), outcome)

generate_interview_questions(key, role, outcome) ==
    IF ~is_api_key_set(key)
    THEN MissingKeyResult
    ELSE Try(ProviderCall(key, "InterviewQuestions", InterviewPrompt(role)),
             outcome)

(* --------------------------- presentation ------------------------------ *)
\* what a view produces in one rerun
View(shown, r) ==
    [shown |-> shown, ret |-> r.ret, sent |-> r.sent, reply |-> r.reply,
     raised |-> r.raised]

\* a view that did not call the gateway: `response` is not bound
NoCall == Result(Unbound, <<>>, <<>>, Unbound, FALSE)

\* if response: the gateway returns None or a Message object, which is truthy
ResponseTruthy(r) == ~r.raised /\ r.ret.kind = "Message"

CareerResult(parsed) ==
    << El("success", AnalysisBanner),
       El("subheader", "Suggested Career Path"),
       El("info", parsed.career),
       El("subheader", "Why This Path?"),
       El("write", parsed.reasons) >>

QuestionItemsFromZero(questions) ==
    [i \in 1..Len(questions) |->
        El("markdown", "**Q" \o ToString(i - 1) \o ".** " \o questions[i])]

\* for idx, question in enumerate(response.parsed.questions, 1): st.markdown(...)
QuestionItems(questions) ==
    [i \in 1..Len(questions) |->
        El("markdown", "**Q" \o ToString(i) \o ".** " \o questions[i])]

AnyFieldFilled(interests, skills, goals) ==
    Truthy(interests) \/ Truthy(skills) \/ Truthy(goals)
\* interests and skills and goals
AllFieldsFilled(interests, skills, goals) ==
    Truthy(interests) /\ Truthy(skills) /\ Truthy(goals)

CareerGuidanceView(key, w, outcome) ==
    LET head == <<El("header", "Career Guidance Generator")>> IN
    IF ~w.button THEN View(head, NoCall)
    ELSE IF ~is_api_key_set(key)
    THEN View(head \o <<El("error", MissingKeyMsg)>>, NoCall)
    ELSE IF AllFieldsFilled(w.interests, w.skills, w.goals)
    THEN LET r == generate_career_guidance(key, w.interests, w.skills,
                                           w.goals, outcome)
         IN View(head \o r.shown \o
                   (IF ResponseTruthy(r) THEN CareerResult(r.ret.parsed)
                    ELSE <<>>),
                 r)
    ELSE View(head \o <<El("error", FillAllMsg)>>, NoCall)

InterviewView(key, w, outcome) ==
    LET head == <<El("header", "Interview Question Creator")>> IN
    IF ~w.button THEN View(head, NoCall)
    ELSE IF ~is_api_key_set(key)
    THEN View(head \o <<El("error", MissingKeyMsg)>>, NoCall)
    ELSE IF Truthy(w.role)
    THEN LET r == generate_interview_questions(key, w.role, outcome)
         IN View(head \o r.shown \o
                   (IF ResponseTruthy(r)
                    THEN <<El("success", QuestionsBanner)>>
                             \o QuestionItems(r.ret.parsed.questions)
                    ELSE <<>>),
                 r)
    ELSE View(head \o <<El("error", EnterRoleMsg)>>, NoCall)

AboutWelcome ==
    "Welcome to AI Career Mentor, your intelligent companion in career "
    \o "development! This app combines the power of advanced AI with "
    \o "intuitive design to help you make informed career decisions and "
    \o "prepare for your dream job."
AboutSteps ==
    "To get started: 1. Enter your OpenAI API key in the sidebar "
    \o "2. Choose a feature you'd like to explore 3. Follow the prompts to "
    \o "get personalized career guidance or interview questions"

AboutView ==
    View(<<El("header", "About AI Career Mentor"),
           El("write", AboutWelcome),
           El("markdown", AboutSteps)>>,
         NoCall)

HowIntro == "Let's see how simple it is to use ell with this example:"
HowPoem ==
    "*here's a poem for john, the coding star* "
    \o "in lines of code, john finds his way, debugging issues day by day, "
    \o "with coffee close and screen aglow, he makes the functions smoothly "
    \o "flow. a developer's life, he chose to lead, turning concepts into "
    \o "reality with speed, in john's world of ones and zeros bright, every "
    \o "bug fixed brings pure delight."
HowComponents ==
    "The app uses several key components: "
    \o "1. **Structured Output:** Uses Pydantic models for consistent responses "
    \o "2. **AI Integration:** Leverages GPT-4 through the ell package "
    \o "3. **Interactive UI:** Built with Streamlit for a seamless experience "
    \o "4. **Real-time Processing:** Instant feedback and generation"
HowDeeper ==
    "**Want to dive deeper into ell?** Explore the comprehensive "
    \o "[ell documentation](https://docs.ell.so/) to unlock its full "
    \o "potential and build amazing AI-powered applications!"

HowItWorksView(key, w) ==
    LET head == <<El("header", "How It Works"), El("write", HowIntro)>>
        tail == <<El("markdown", HowComponents), El("markdown", "---"),
                  El("markdown", HowDeeper)>>
    IN
    IF ~w.button THEN View(head \o tail, NoCall)
    ELSE IF ~is_api_key_set(key)
    THEN View(head \o <<El("error", MissingKeyMsg)>> \o tail, NoCall)
    ELSE View(head \o <<El("markdown", "---"), El("markdown", HowPoem),
                        El("success", ExampleBanner)>> \o tail,
              NoCall)

Widgets(api_key, feature, interests, skills, goals, role, button) ==
    [api_key |-> api_key, feature |-> feature, interests |-> interests,
     skills |-> skills, goals |-> goals, role |-> role, button |-> button]

ShowAppending(old, sidebar, shown) == old \o sidebar \o shown
\* every rerun draws the page anew
Show(old, sidebar, shown) == sidebar \o shown

(* ------------------------------ the state ------------------------------ *)
\* if 'openai_api_key' not in st.session_state: ... = None
Init ==
    /\ openai_api_key = None
    /\ widgets = Widgets("", "Career Guidance", "", "", "", "", FALSE)
    /\ reply = Unbound
    /\ response = Unbound
    /\ screen = <<>>
    /\ calls = <<>>
    /\ entered = <<>>
    /\ raised = FALSE
    /\ op = "init"
    /\ steps = 0

\* one run of main(): the sidebar first (lines 105-116), then the selected
\* view; the value of vars after the run
Main(w, view) ==
    [openai_api_key |-> StoreApiKey(openai_api_key, w.api_key),
     widgets |-> w,
     reply |-> view.reply,
     response |-> view.ret,
     screen |-> Show(screen, SidebarStatus(w.api_key), view.shown),
     calls |-> calls \o view.sent,
     entered |-> Append(entered, w.api_key),
     raised |-> view.raised,
     op |-> "main"]

\* the state after an operation
Becomes(n) ==
    /\ openai_api_key' = n.openai_api_key
    /\ widgets' = n.widgets
    /\ reply' = n.reply
    /\ response' = n.response
    /\ screen' = n.screen
    /\ calls' = n.calls
    /\ entered' = n.entered
    /\ raised' = n.raised
    /\ op' = n.op
    /\ steps' = steps + 1

RerunCareerGuidance ==
    \E k \in KeyField, i \in InterestsField, s \in SkillsField,
       g \in GoalsField, b \in BOOLEAN, outcome \in CareerOutcomes :
        LET w == Widgets(k, "Career Guidance", i, s, g, "", b) IN
        /\ steps < MaxSteps
        /\ Becomes(Main(w, CareerGuidanceView(KeyInView(openai_api_key, k),
                                              w, outcome)))

RerunInterview ==
    \E k \in KeyField, r \in RoleField, b \in BOOLEAN,
       outcome \in InterviewOutcomes :
        LET w == Widgets(k, "Interview Question Generator", "", "", "", r, b) IN
        /\ steps < MaxSteps
        /\ Becomes(Main(w, InterviewView(KeyInView(openai_api_key, k),
                                         w, outcome)))

RerunAbout ==
    \E k \in KeyField :
        LET w == Widgets(k, "About the App", "", "", "", "", FALSE) IN
        /\ steps < MaxSteps
        /\ Becomes(Main(w, AboutView))

RerunHowItWorks ==
    \E k \in KeyField, b \in BOOLEAN :
        LET w == Widgets(k, "How It Works", "", "", "", "", b) IN
        /\ steps < MaxSteps
        /\ Becomes(Main(w, HowItWorksView(KeyInView(openai_api_key, k), w)))

Next ==
    \/ RerunCareerGuidance
    \/ RerunInterview
    \/ RerunAbout
    \/ RerunHowItWorks

Spec == Init /\ [][Next]_vars

\* a gateway operation called on its own, in the session's current state;
\* the value of vars after the call
Direct(name, r) ==
    [openai_api_key |-> openai_api_key,
     widgets |-> widgets,
     reply |-> r.reply,
     response |-> r.ret,
     screen |-> r.shown,
     calls |-> calls \o r.sent,
     entered |-> entered,
     raised |-> r.raised,
     op |-> name]

CallCareerGuidance ==
    \E a \in DirectCareerArgs, outcome \in CareerOutcomes :
        /\ steps < MaxSteps
        /\ Becomes(Direct("generate_career_guidance",
                          generate_career_guidance(openai_api_key,
                              a[1], a[2], a[3], outcome)))

CallInterviewQuestions ==
    \E r \in RoleField, outcome \in InterviewOutcomes :
        /\ steps < MaxSteps
        /\ Becomes(Direct("generate_interview_questions",
                          generate_interview_questions(openai_api_key, r, outcome)))

NextGateway ==
    \/ RerunCareerGuidance
    \/ RerunInterview
    \/ RerunAbout
    \/ RerunHowItWorks
    \/ CallCareerGuidance
    \/ CallInterviewQuestions

SpecGateway == Init /\ [][NextGateway]_vars

(* ------------------------------ properties ----------------------------- *)
Has(seq, e) == \E i \in DOMAIN seq : seq[i] = e
Count(seq, ws) == Cardinality({i \in DOMAIN seq : seq[i].w \in ws})
Only(seq, ws) == SelectSeq(seq, LAMBDA e : e.w \in ws)

GatewayOps == {"generate_career_guidance", "generate_interview_questions"}
GenerationViews == {"Career Guidance", "Interview Question Generator"}
\* the view's generation button was pressed in the rerun that read w
Triggered(w) == w.button /\ w.feature \in GenerationViews
\* every required text field of the view is non-empty
Complete(w) ==
    IF w.feature = "Career Guidance"
    THEN w.interests # "" /\ w.skills # "" /\ w.goals # ""
    ELSE w.role # ""
IncompleteMsg(w) ==
    IF w.feature = "Career Guidance" THEN FillAllMsg ELSE EnterRoleMsg
GenerationBanners == {El("success", AnalysisBanner), El("success", QuestionsBanner)}
BannerShown(scr) == \E b \in GenerationBanners : Has(scr, b)
\* career, reasons or question items on the page
StructuredShown(scr) == Count(scr, {"info", "write", "markdown"}) > 0
\* the request a complete trigger is expected to send
Request(w, key) ==
    IF w.feature = "Career Guidance"
    THEN [api_key |-> key, model |-> "gpt-4o",
          response_format |-> "CareerSuggestion",
          prompt |-> "Based on interests: " \o w.interests \o ", skills: "
                     \o w.skills \o ", and goals: " \o w.goals
                     \o ", suggest a suitable career."]
    ELSE [api_key |-> key, model |-> "gpt-4o",
          response_format |-> "InterviewQuestions",
          prompt |-> "Generate 5 interview questions for the role of "
                     \o w.role \o "."]
RECURSIVE LastNonEmpty(_)
\* the most recent non-empty value of a sequence of field values, or None
LastNonEmpty(seq) ==
    IF seq = <<>> THEN None
    ELSE IF seq[Len(seq)] # "" THEN seq[Len(seq)]
    ELSE LastNonEmpty(SubSeq(seq, 1, Len(seq) - 1))

\* C1: with no credential stored, a generation trigger shows the
\* missing-credential error and sends nothing to the provider, whatever the
\* text fields hold; a gateway operation called with no credential stored
\* returns None, shows the same error and sends nothing.
C1_MissingCredential ==
    [][ /\ (op' = "main" /\ Triggered(widgets') /\ openai_api_key' = None)
            => /\ Has(screen', El("error", MissingKeyMsg))
               /\ calls' = calls
               /\ reply' = Unbound
               /\ ~BannerShown(screen')
        /\ (op' \in GatewayOps /\ openai_api_key = None)
            => /\ response' = NoneValue
               /\ Has(screen', El("error", MissingKeyMsg))
               /\ calls' = calls
               /\ reply' = Unbound
               /\ ~raised'
      ]_vars

C1_Witness ==
    /\ op = "main" /\ Triggered(widgets) /\ Complete(widgets)
    /\ openai_api_key = None
    /\ Has(screen, El("error", MissingKeyMsg))

\* C2 as stated: whenever a required text field is empty, a generation
\* trigger shows the incomplete-input error.
C2_IncompleteAlwaysReported ==
    (op = "main" /\ Triggered(widgets) /\ ~Complete(widgets))
        => Has(screen, El("error", IncompleteMsg(widgets)))

\* C2 amended: whenever a required text field is empty, a generation trigger
\* sends nothing to the provider; it shows the incomplete-input error when a
\* credential is stored and the missing-credential error when none is.
C2_IncompleteInput ==
    [][ (op' = "main" /\ Triggered(widgets') /\ ~Complete(widgets'))
            => /\ calls' = calls
               /\ reply' = Unbound
               /\ ~BannerShown(screen') /\ ~StructuredShown(screen')
               /\ Count(screen', {"error"}) = 1
               /\ IF openai_api_key' # None
                  THEN Has(screen', El("error", IncompleteMsg(widgets')))
                  ELSE Has(screen', El("error", MissingKeyMsg))
      ]_vars

C2_Witness ==
    /\ op = "main" /\ Triggered(widgets) /\ widgets.feature = "Career Guidance"
    /\ widgets.interests # "" /\ widgets.skills = "" /\ widgets.goals # ""
    /\ openai_api_key \in Keys
    /\ Has(screen, El("error", FillAllMsg))

\* C3: a rerun sends exactly one request when its trigger finds a stored
\* credential and complete inputs, and none otherwise; the request is sent
\* again in full whenever the same trigger is repeated.
C3_OneCallPerTrigger ==
    [][ op' = "main" =>
          IF Triggered(widgets') /\ Complete(widgets') /\ openai_api_key' # None
          THEN calls' = Append(calls, Request(widgets', openai_api_key'))
          ELSE calls' = calls
      ]_vars

C3_Witness ==
    /\ op = "main" /\ Len(entered) = 2 /\ Len(calls) = 2
    /\ calls[1] = calls[2]
    /\ reply.kind = "Message"

\* C4: when the provider raises, the gateway operation returns None after
\* showing the error message, nothing is raised to the caller, and neither a
\* success banner nor any structured output is shown.
C4_ProviderFailure ==
    reply.kind = "Exception"
        => /\ response = NoneValue
           /\ ~raised
           /\ Has(screen, El("error", "Error: " \o reply.msg))
           /\ ~BannerShown(screen)
           /\ ~StructuredShown(screen)

C4_Witness ==
    /\ op = "main" /\ reply.kind = "Exception"
    /\ Has(screen, El("error", "Error: Connection error."))

\* C5: after a successful response the page shows the parsed value as it
\* came: the career and the reasons once each, unchanged, or one item per
\* question, item i numbered i and carrying the i-th question.
C5_RendersParsedVerbatim ==
    (op = "main" /\ reply.kind = "Message")
        => IF widgets.feature = "Career Guidance"
           THEN /\ Only(screen, {"info"}) = <<El("info", reply.parsed.career)>>
                /\ Only(screen, {"write"}) = <<El("write", reply.parsed.reasons)>>
           ELSE LET items == Only(screen, {"markdown"})
                    qs == reply.parsed.questions
                IN /\ Len(items) = Len(qs)
                   /\ \A i \in 1..Len(qs) :
                        items[i].body = "**Q" \o ToString(i) \o ".** " \o qs[i]

C5_Witness ==
    /\ op = "main" /\ reply.kind = "Message"
    /\ widgets.feature = "Interview Question Generator"
    /\ reply.parsed.questions = <<"Q2", "Q1">>
    /\ Only(screen, {"markdown"}) =
         <<El("markdown", "**Q1.** Q2"), El("markdown", "**Q2.** Q1")>>

\* C6: a stored credential stays stored: no step clears it, only a non-empty
\* credential field changes it, and a rerun with the field empty shows the
\* sidebar warning and leaves the stored value as it was.
C6_CredentialKept ==
    [][ /\ (openai_api_key # None => openai_api_key' # None)
        /\ (openai_api_key' # openai_api_key
              => op' = "main" /\ widgets'.api_key # ""
                 /\ openai_api_key' = widgets'.api_key)
        /\ (op' = "main" /\ widgets'.api_key = ""
              => /\ openai_api_key' = openai_api_key
                 /\ Count(screen', {"sidebar.warning"}) = 1)
      ]_vars

C6_Witness ==
    /\ op = "main" /\ widgets.api_key = "" /\ openai_api_key \in Keys
    /\ Count(screen, {"sidebar.warning"}) = 1
    /\ reply.kind = "Exception"

\* C7 as stated: a success banner is never shown with an empty career, empty
\* reasons or no questions.
C7_NonEmptyOnSuccess ==
    /\ Has(screen, El("success", AnalysisBanner))
         => response.parsed.career # "" /\ response.parsed.reasons # ""
    /\ Has(screen, El("success", QuestionsBanner))
         => Len(response.parsed.questions) > 0

\* C8: no outcome of a trigger outlasts its rerun: nothing is raised, the
\* credential is what the sidebar made of it, the page holds this rerun's
\* outcome alone (none without a trigger; a static view shows its static
\* text only), and a trigger with a stored credential and complete inputs
\* is dispatched whatever the previous rerun showed.
C8_Retriggerable ==
    [][ op' = "main" =>
          /\ ~raised'
          /\ openai_api_key' =
               (IF widgets'.api_key # "" THEN widgets'.api_key ELSE openai_api_key)
          /\ Count(screen', {"sidebar.success", "sidebar.warning"}) = 1
          /\ Count(screen', {"header"}) = 1
          /\ Count(screen', {"error"}) + Count(screen', {"success"}) <= 1
          /\ (~widgets'.button => Count(screen', {"error", "success"}) = 0)
          /\ (~widgets'.button /\ widgets'.feature \in GenerationViews
                => Count(screen', {"info", "write", "markdown"}) = 0)
          /\ (widgets'.feature = "About the App"
                => Only(screen', {"header", "write", "markdown"}) = AboutView.shown)
          /\ (Triggered(widgets') /\ Complete(widgets') /\ openai_api_key' # None
                => Len(calls') = Len(calls) + 1 /\ reply' # Unbound)
      ]_vars

\* a trigger that succeeded after two reruns that sent nothing
C8_Witness ==
    /\ op = "main" /\ Len(entered) = 3 /\ Len(calls) = 1
    /\ entered[1] = "" /\ Triggered(widgets)
    /\ reply.kind = "Message" /\ BannerShown(screen)
    /\ Count(screen, {"error"}) = 0

\* C9: the stored credential is None or a non-empty string, never the empty
\* string, so is_api_key_set() holds exactly when a non-empty credential is
\* stored, and no request carries an empty or absent credential.
C9_CredentialNonEmpty ==
    /\ openai_api_key # ""
    /\ is_api_key_set(openai_api_key)
         <=> (openai_api_key # None /\ openai_api_key # "")
    /\ \A i \in DOMAIN calls : calls[i].api_key \notin {"", None}

C9_Witness ==
    /\ Len(entered) >= 2 /\ entered[Len(entered)] = ""
    /\ entered[1] # ""
    /\ openai_api_key = entered[1]
    /\ Len(calls) >= 1

\* C10: the stored credential is the most recent non-empty value of the
\* credential field, this rerun's value included, and every request sent in
\* a rerun carries it.
C10_CallCarriesLatestKey ==
    [][ op' = "main" =>
          /\ openai_api_key' = LastNonEmpty(entered')
          /\ \A i \in (Len(calls) + 1)..Len(calls') :
                calls'[i].api_key = LastNonEmpty(entered')
      ]_vars

C10_Witness ==
    /\ op = "main" /\ Len(entered) = 2
    /\ entered = <<"sk-1", "sk-2">>
    /\ Triggered(widgets) /\ Len(calls) = 2
    /\ calls[1].api_key = "sk-1" /\ calls[2].api_key = "sk-2"

====
